---------------------------- MODULE Spec2Model ----------------------------
(***************************************************************************)
(* The two tool handlers of datadog-mcp, get_monitor.handle_call and       *)
(* monitor_edit.handle_call, with the Remote Client (fetch_monitor,        *)
(* update_monitor) and the monitoring service they talk to.                *)
(*                                                                         *)
(* Python values are tagged records (None, int, str, list, dict).  A str   *)
(* is a sequence of one-character strings, so that formatting, slicing,    *)
(* substring tests and JSON encoding act on characters.  A dict is the     *)
(* sequence of its <<key, value>> items in insertion order.                *)
(***************************************************************************)
EXTENDS Integers, Sequences, FiniteSets, TLC

VARIABLES
    remote,     \* the monitoring service: monitor id -> Monitor record (a Dict)
    pc,         \* position of the handler invocation in progress
    tool,       \* the handler invoked: "get_monitor" or "monitor_edit"
    request,    \* the CallToolRequest of the invocation
    calls,      \* Remote Client calls made by the handler in this invocation
    http,       \* HTTP requests sent to the service in this invocation
    outcome,    \* what the awaited Remote Client call produced
    result,     \* the CallToolResult returned
    ncalls,     \* number of handler invocations started
    replies,    \* the service's replies to the HTTP requests of this invocation
    before,     \* the service's monitors when this invocation started
    external,   \* modifications other clients made to monitors since this invocation started
    history     \* the invocations that have returned: tool, request, replies and result

vars ==
    <<remote, pc, tool, request, calls, http, outcome, result, ncalls, replies, before,
      external, history>>

(***************************************************************************)
(* String literals of the source, character by character.                  *)
(***************************************************************************)

\* "monitor_id"
K_monitor_id == <<"m", "o", "n", "i", "t", "o", "r", "_", "i", "d">>

\* "format"
K_format == <<"f", "o", "r", "m", "a", "t">>

\* "name"
K_name == <<"n", "a", "m", "e">>

\* "message"
K_message == <<"m", "e", "s", "s", "a", "g", "e">>

\* "tags"
K_tags == <<"t", "a", "g", "s">>

\* "priority"
K_priority == <<"p", "r", "i", "o", "r", "i", "t", "y">>

\* "type"
K_type == <<"t", "y", "p", "e">>

\* "overall_state"
K_overall_state == <<"o", "v", "e", "r", "a", "l", "l", "_", "s", "t", "a", "t", "e">>

\* "query"
K_query == <<"q", "u", "e", "r", "y">>

\* "id"
K_id == <<"i", "d">>

\* "table"
S_table == <<"t", "a", "b", "l", "e">>

\* "json"
S_json == <<"j", "s", "o", "n">>

\* "Unnamed"
S_Unnamed == <<"U", "n", "n", "a", "m", "e", "d">>

\* "unknown"
S_unknown == <<"u", "n", "k", "n", "o", "w", "n">>

\* "N/A"
S_NA == <<"N", "/", "A">>

\* "None"
S_None == <<"N", "o", "n", "e">>

\* ", "
S_CommaSpace == <<",", " ">>

\* "..."
S_Ellipsis == <<".", ".", ".">>

\* "\n"
S_Newline == <<"\n">>

\* " "
S_Space == <<" ">>

\* " (+"
S_PlusOpen == <<" ", "(", "+">>

\* " more)"
S_MoreClose == <<" ", "m", "o", "r", "e", ")">>

\* "Monitor Details\n"
S_MonitorDetails == <<"M", "o", "n", "i", "t", "o", "r", " ", "D", "e", "t", "a", "i", "l",
    "s", "\n">>

\* "="
S_Equals == <<"=">>

\* "ID:       "
S_LabelID == <<"I", "D", ":", " ", " ", " ", " ", " ", " ", " ">>

\* "Name:     "
S_LabelName == <<"N", "a", "m", "e", ":", " ", " ", " ", " ", " ">>

\* "Type:     "
S_LabelType == <<"T", "y", "p", "e", ":", " ", " ", " ", " ", " ">>

\* "State:    "
S_LabelState == <<"S", "t", "a", "t", "e", ":", " ", " ", " ", " ">>

\* "Priority: "
S_LabelPriority == <<"P", "r", "i", "o", "r", "i", "t", "y", ":", " ">>

\* "Tags:     "
S_LabelTags == <<"T", "a", "g", "s", ":", " ", " ", " ", " ", " ">>

\* "Query:    "
S_LabelQuery == <<"Q", "u", "e", "r", "y", ":", " ", " ", " ", " ">>

\* "Message:  "
S_LabelMessage == <<"M", "e", "s", "s", "a", "g", "e", ":", " ", " ">>

\* faulty variant of GM_MonitorIdRequired: the text without "Error: "
GM_MonitorIdRequired_unprefixed == <<"m", "o", "n", "i", "t", "o", "r", "_", "i", "d", " ",
    "i", "s", " ", "r", "e", "q", "u", "i", "r", "e", "d">>

\* "Error: monitor_id is required"
GM_MonitorIdRequired == <<"E", "r", "r", "o", "r", ":", " ", "m", "o", "n", "i", "t", "o",
    "r", "_", "i", "d", " ", "i", "s", " ", "r", "e", "q", "u", "i", "r", "e", "d">>

\* "Monitor not found"
GM_MonitorNotFound == <<"M", "o", "n", "i", "t", "o", "r", " ", "n", "o", "t", " ", "f",
    "o", "u", "n", "d">>

\* "Permission denied"
GM_PermissionDenied == <<"P", "e", "r", "m", "i", "s", "s", "i", "o", "n", " ", "d", "e",
    "n", "i", "e", "d">>

\* "Error: "
GM_ErrorPrefix == <<"E", "r", "r", "o", "r", ":", " ">>

\* "Error: monitor_id is required"
ME_MonitorIdRequired == <<"E", "r", "r", "o", "r", ":", " ", "m", "o", "n", "i", "t", "o",
    "r", "_", "i", "d", " ", "i", "s", " ", "r", "e", "q", "u", "i", "r", "e", "d">>

\* "Invalid priority: must be 1-5"
ME_InvalidPriority == <<"I", "n", "v", "a", "l", "i", "d", " ", "p", "r", "i", "o", "r",
    "i", "t", "y", ":", " ", "m", "u", "s", "t", " ", "b", "e", " ", "1", "-", "5">>

\* "At least one field to update is required"
ME_AtLeastOneField == <<"A", "t", " ", "l", "e", "a", "s", "t", " ", "o", "n", "e", " ",
    "f", "i", "e", "l", "d", " ", "t", "o", " ", "u", "p", "d", "a", "t", "e", " ", "i",
    "s", " ", "r", "e", "q", "u", "i", "r", "e", "d">>

\* "Monitor not found"
ME_MonitorNotFound == <<"M", "o", "n", "i", "t", "o", "r", " ", "n", "o", "t", " ", "f",
    "o", "u", "n", "d">>

\* "Permission denied"
ME_PermissionDenied == <<"P", "e", "r", "m", "i", "s", "s", "i", "o", "n", " ", "d", "e",
    "n", "i", "e", "d">>

\* "Error: "
ME_ErrorPrefix == <<"E", "r", "r", "o", "r", ":", " ">>

\* "Monitor "
ME_MonitorPrefix == <<"M", "o", "n", "i", "t", "o", "r", " ">>

\* " updated successfully"
ME_UpdatedSuccessfully == <<" ", "u", "p", "d", "a", "t", "e", "d", " ", "s", "u", "c",
    "c", "e", "s", "s", "f", "u", "l", "l", "y">>

(***************************************************************************)
(* Python values.                                                          *)
(***************************************************************************)
None == [t |-> "null"]
PyInt(n) == [t |-> "int", v |-> n]
PyStr(s) == [t |-> "str", v |-> s]
PyList(l) == [t |-> "list", v |-> l]
PyDict(items) == [t |-> "dict", v |-> items]

IsNone(x) == x.t = "null"
IsInt(x) == x.t = "int"
IsStr(x) == x.t = "str"
IsList(x) == x.t = "list"
IsDict(x) == x.t = "dict"

EmptyDict == PyDict(<<>>)

\* k in d
DictHas(d, k) == \E i \in 1..Len(d.v) : d.v[i][1] = k

\* d.get(k, default): the value under k, the default only when k is not a key
DictGet(d, k, default) ==
    IF DictHas(d, k)
    THEN d.v[CHOOSE i \in 1..Len(d.v) : d.v[i][1] = k][2]
    ELSE default

\* d[k] = x: overwrite in place, or insert at the end
DictSet(d, k, x) ==
    IF DictHas(d, k)
    THEN PyDict([i \in 1..Len(d.v) |-> IF d.v[i][1] = k THEN <<k, x>> ELSE d.v[i]])
    ELSE PyDict(Append(d.v, <<k, x>>))

DictKeys(d) == {d.v[i][1] : i \in 1..Len(d.v)}

\* Python truthiness of the values modelled
Truthy(x) ==
    CASE IsNone(x) -> FALSE
      [] IsInt(x) -> x.v # 0
      [] OTHER -> Len(x.v) > 0

\* a or b
Or(a, b) == IF Truthy(a) THEN a ELSE b

Min(a, b) == IF a < b THEN a ELSE b

\* s[:n] for n >= 0
SliceTo(s, n) == SubSeq(s, 1, Min(n, Len(s)))

\* sub in s
Contains(s, sub) ==
    \E i \in 0..(Len(s) - Len(sub)) : SubSeq(s, i + 1, i + Len(sub)) = sub

StartsWith(s, p) == Len(p) <= Len(s) /\ SubSeq(s, 1, Len(p)) = p

UpperChars == <<"A", "B", "C", "D", "E", "F", "G", "H", "I", "J", "K", "L", "M",
    "N", "O", "P", "Q", "R", "S", "T", "U", "V", "W", "X", "Y", "Z">>
LowerChars == <<"a", "b", "c", "d", "e", "f", "g", "h", "i", "j", "k", "l", "m",
    "n", "o", "p", "q", "r", "s", "t", "u", "v", "w", "x", "y", "z">>

\* s.lower()
Lower(s) ==
    [i \in 1..Len(s) |->
        IF \E j \in 1..26 : UpperChars[j] = s[i]
        THEN LowerChars[CHOOSE j \in 1..26 : UpperChars[j] = s[i]]
        ELSE s[i]]

Digits == <<"0", "1", "2", "3", "4", "5", "6", "7", "8", "9">>

RECURSIVE NatToStr(_)
NatToStr(n) ==
    IF n < 10 THEN <<Digits[n + 1]>>
    ELSE NatToStr(n \div 10) \o <<Digits[(n % 10) + 1]>>

\* str(n) of an int
IntToStr(n) == IF n < 0 THEN <<"-">> \o NatToStr(-n) ELSE NatToStr(n)

\* c * n: the string c repeated n times
RECURSIVE Repeat(_, _)
Repeat(c, n) == IF n <= 0 THEN <<>> ELSE c \o Repeat(c, n - 1)

\* sep.join(parts) for a sequence of strs
RECURSIVE Join(_, _)
Join(sep, parts) ==
    IF Len(parts) = 0 THEN <<>>
    ELSE IF Len(parts) = 1 THEN parts[1]
    ELSE parts[1] \o sep \o Join(sep, Tail(parts))

\* the concatenation of a sequence of sequences
RECURSIVE Concat(_)
Concat(seqs) ==
    IF Len(seqs) = 0 THEN <<>>
    ELSE IF Len(seqs) = 1 THEN seqs[1]
    ELSE LET h == Len(seqs) \div 2
         IN Concat(SubSeq(seqs, 1, h)) \o Concat(SubSeq(seqs, h + 1, Len(seqs)))

\* s.replace(a, b) for a one-character a
Replace(s, a, b) == Concat([i \in 1..Len(s) |-> IF <<s[i]>> = a THEN b ELSE <<s[i]>>])

(***************************************************************************)
(* Results and exceptions.                                                 *)
(***************************************************************************)
\* CallToolResult(content=[TextContent(type="text", text=text)], isError=isError)
CallToolResult(text, isError) ==
    [content |-> <<[type |-> "text", text |-> text]>>, isError |-> isError]

\* what a piece of handler code ends with: a returned result, a call it awaits,
\* or an exception that leaves it
Return(r) == [kind |-> "return", result |-> r]
Await(op, monitor_id, kwargs) ==
    [kind |-> "await", op |-> op, monitor_id |-> monitor_id, kwargs |-> kwargs]
Raise(e) == [kind |-> "raise", exc |-> e]

\* httpx.HTTPStatusError(msg, response=<status_code>)
HTTPStatusError(status, msg) == [cls |-> "HTTPStatusError", status_code |-> status, msg |-> msg]
\* any other subclass of Exception
OtherError(cls, msg) == [cls |-> cls, status_code |-> 0, msg |-> msg]

\* str(e)
ExcStr(e) == e.msg

\* the classes of the exceptions modelled; all derive from Exception
ExceptionClasses == {"HTTPStatusError", "ConnectError", "TypeError"}

\* what an awaited Remote Client call produced
Returned(value) == [kind |-> "return", value |-> value]
Raised(e) == [kind |-> "raise", exc |-> e]
NoOutcome == [kind |-> "none"]
NoResult == [content |-> <<>>, isError |-> FALSE]

(***************************************************************************)
(* Messages of the TypeErrors Python raises while formatting a record      *)
(* whose tags or message is not of the expected type.                      *)
(***************************************************************************)
\* "'NoneType' object is not subscriptable"
S_NotSubscriptable == <<"'", "N", "o", "n", "e", "T", "y", "p", "e", "'", " ", "o", "b",
    "j", "e", "c", "t", " ", "i", "s", " ", "n", "o", "t", " ", "s", "u", "b", "s", "c",
    "r", "i", "p", "t", "a", "b", "l", "e">>

\* "object of type 'NoneType' has no len()"
S_NoLen == <<"o", "b", "j", "e", "c", "t", " ", "o", "f", " ", "t", "y", "p", "e", " ",
    "'", "N", "o", "n", "e", "T", "y", "p", "e", "'", " ", "h", "a", "s", " ", "n", "o",
    " ", "l", "e", "n", "(", ")">>

(***************************************************************************)
(* json.dumps(value, indent=2), as get_monitor.py calls it.                *)
(***************************************************************************)
\* the escapes of a str's characters (ensure_ascii output of the characters modelled)
JsonEscapeChar(c) ==
    CASE c = "\"" -> <<"\\", "\"">>
      [] c = "\\" -> <<"\\", "\\">>
      [] c = "\n" -> <<"\\", "n">>
      [] OTHER -> <<c>>

JsonEscape(s) == Concat([i \in 1..Len(s) |-> JsonEscapeChar(s[i])])

\* faulty variant of JsonString: the characters are written without escapes
JsonString_raw(s) == <<"\"">> \o s \o <<"\"">>

JsonString(s) == <<"\"">> \o JsonEscape(s) \o <<"\"">>

\* '\n' + ' ' * (indent * level)
NewlineIndent(indent, level) == S_Newline \o Repeat(S_Space, indent * level)

RECURSIVE JsonEncode(_, _, _)
JsonEncode(x, indent, level) ==
    CASE IsNone(x) -> <<"n", "u", "l", "l">>
      [] IsInt(x) -> IntToStr(x.v)
      [] IsStr(x) -> JsonString(x.v)
      [] IsList(x) ->
            IF Len(x.v) = 0 THEN <<"[", "]">>
            ELSE <<"[">> \o NewlineIndent(indent, level + 1)
                 \o Join(<<",">> \o NewlineIndent(indent, level + 1),
                         [i \in 1..Len(x.v) |-> JsonEncode(x.v[i], indent, level + 1)])
                 \o NewlineIndent(indent, level) \o <<"]">>
      [] IsDict(x) ->
            IF Len(x.v) = 0 THEN <<"{", "}">>
            ELSE <<"{">> \o NewlineIndent(indent, level + 1)
                 \o Join(<<",">> \o NewlineIndent(indent, level + 1),
                         [i \in 1..Len(x.v) |->
                             JsonString(x.v[i][1]) \o <<":", " ">>
                             \o JsonEncode(x.v[i][2], indent, level + 1)])
                 \o NewlineIndent(indent, level) \o <<"}">>

JsonIndent == 2

\* json.dumps(monitor, indent=2)
JsonDumps(x) == JsonEncode(x, JsonIndent, 0)

(***************************************************************************)
(* json.loads(text): the parser the JSON output is read back with.         *)
(* A parse step yields [ok, v, next]: the value and the index after it.    *)
(***************************************************************************)
ParseFail == [ok |-> FALSE, v |-> None, next |-> 0]
ParseOk(v, next) == [ok |-> TRUE, v |-> v, next |-> next]

At(s, i) == IF i >= 1 /\ i <= Len(s) THEN s[i] ELSE "EOF"

IsDigit(c) == \E j \in 1..10 : Digits[j] = c
DigitValue(c) == (CHOOSE j \in 1..10 : Digits[j] = c) - 1

RECURSIVE SkipWs(_, _)
SkipWs(s, i) == IF At(s, i) \in {" ", "\n"} THEN SkipWs(s, i + 1) ELSE i

\* the number of backslashes that end just before index j, none of them before i
BackslashRun(s, i, j) ==
    CHOOSE k \in 0..(j - i) :
        /\ \A m \in 1..k : s[j - m] = "\\"
        /\ k = j - i \/ s[j - k - 1] # "\\"

\* the character an escape sequence \c stands for ("?" for one not modelled)
Unescape(c) ==
    CASE c = "\"" -> "\""
      [] c = "\\" -> "\\"
      [] c = "n" -> "\n"
      [] OTHER -> "?"

\* the string literal whose characters start at index i (after the opening quote):
\* it ends at the first quote that an even number of backslashes precedes
ScanString(s, i) ==
    LET ends == {j \in i..Len(s) : s[j] = "\"" /\ BackslashRun(s, i, j) % 2 = 0}
    IN IF ends = {} THEN ParseFail
       ELSE LET e == CHOOSE j \in ends : \A k \in ends : j <= k
                escaping(p) == s[p] = "\\" /\ BackslashRun(s, i, p) % 2 = 0
                escaped(p) == p > i /\ escaping(p - 1)
                bad == \E p \in i..(e - 1) :
                          \/ s[p] = "\n"
                          \/ escaped(p) /\ s[p] \notin {"\"", "\\", "n"}
            IN IF bad THEN ParseFail
               ELSE ParseOk(PyStr(Concat([q \in 1..(e - i) |->
                                LET p == i + q - 1
                                IN IF escaped(p) THEN <<Unescape(s[p])>>
                                   ELSE IF escaping(p) THEN <<>>
                                   ELSE <<s[p]>>])),
                            e + 1)

RECURSIVE ScanDigits(_, _, _)
ScanDigits(s, i, acc) ==
    IF IsDigit(At(s, i)) THEN ScanDigits(s, i + 1, acc * 10 + DigitValue(At(s, i)))
    ELSE ParseOk(PyInt(acc), i)

ParseNumber(s, i) ==
    IF At(s, i) = "-"
    THEN IF IsDigit(At(s, i + 1))
         THEN LET r == ScanDigits(s, i + 1, 0) IN ParseOk(PyInt(-r.v.v), r.next)
         ELSE ParseFail
    ELSE ScanDigits(s, i, 0)

RECURSIVE ParseValue(_, _)
RECURSIVE ParseElements(_, _, _)
RECURSIVE ParseMembers(_, _, _)

\* the elements of an array from index i (at an element), acc the ones read
ParseElements(s, i, acc) ==
    LET r == ParseValue(s, i) IN
    IF ~r.ok THEN ParseFail
    ELSE LET j == SkipWs(s, r.next) IN
         CASE At(s, j) = "," -> ParseElements(s, SkipWs(s, j + 1), Append(acc, r.v))
           [] At(s, j) = "]" -> ParseOk(PyList(Append(acc, r.v)), j + 1)
           [] OTHER -> ParseFail

\* the members of an object from index i (at a key), acc the ones read
ParseMembers(s, i, acc) ==
    IF At(s, i) # "\"" THEN ParseFail
    ELSE LET k == ScanString(s, i + 1) IN
         IF ~k.ok THEN ParseFail
         ELSE LET c == SkipWs(s, k.next) IN
              IF At(s, c) # ":" THEN ParseFail
              ELSE LET r == ParseValue(s, SkipWs(s, c + 1)) IN
                   IF ~r.ok THEN ParseFail
                   ELSE LET j == SkipWs(s, r.next)
                            item == <<k.v.v, r.v>>
                        IN CASE At(s, j) = "," ->
                                   ParseMembers(s, SkipWs(s, j + 1), Append(acc, item))
                             [] At(s, j) = "}" -> ParseOk(PyDict(Append(acc, item)), j + 1)
                             [] OTHER -> ParseFail

ParseValue(s, i) ==
    LET c == At(s, i) IN
    CASE c = "n" ->
            IF SubSeq(s, i, Min(i + 3, Len(s))) = <<"n", "u", "l", "l">>
            THEN ParseOk(None, i + 4) ELSE ParseFail
      [] c = "\"" -> ScanString(s, i + 1)
      [] c = "-" \/ IsDigit(c) -> ParseNumber(s, i)
      [] c = "[" ->
            LET j == SkipWs(s, i + 1) IN
            IF At(s, j) = "]" THEN ParseOk(PyList(<<>>), j + 1)
            ELSE ParseElements(s, j, <<>>)
      [] c = "{" ->
            LET j == SkipWs(s, i + 1) IN
            IF At(s, j) = "}" THEN ParseOk(PyDict(<<>>), j + 1)
            ELSE ParseMembers(s, j, <<>>)
      [] OTHER -> ParseFail

\* json.loads(s): [ok, v]; ok is false where json.loads raises
JsonLoads(s) ==
    LET r == ParseValue(s, SkipWs(s, 1)) IN
    IF r.ok /\ SkipWs(s, r.next) > Len(s) THEN [ok |-> TRUE, v |-> r.v]
    ELSE [ok |-> FALSE, v |-> None]

(***************************************************************************)
(* get_monitor.handle_call                                                 *)
(***************************************************************************)
\* f"{x}" of a None, an int or a str
Format(x) ==
    CASE IsNone(x) -> S_None
      [] IsInt(x) -> IntToStr(x.v)
      [] IsStr(x) -> x.v

MaxTagsShown == 5
MaxMessageLen == 100
RuleWidth == 15

\* a step of the formatting: a str, or the exception raised
Ok(text) == [ok |-> TRUE, text |-> text]
Err(e) == [ok |-> FALSE, exc |-> e]

\* faulty variant of TagsStr: the suffix is appended from 5 tags on
TagsStr_from_limit(tags) ==
    IF IsNone(tags) THEN Err(OtherError("TypeError", S_NotSubscriptable))
    ELSE LET shown == SliceTo(tags.v, MaxTagsShown)
             tags_str == Join(S_CommaSpace, [i \in 1..Len(shown) |-> shown[i].v])
         IN IF Len(tags.v) >= MaxTagsShown
            THEN Ok(tags_str \o S_PlusOpen \o IntToStr(Len(tags.v) - MaxTagsShown)
                    \o S_MoreClose)
            ELSE Ok(tags_str)

\* tags_str: ", ".join(tags[:5]), with " (+<n> more)" appended beyond 5 tags
TagsStr(tags) ==
    IF IsNone(tags) THEN Err(OtherError("TypeError", S_NotSubscriptable))
    ELSE LET shown == SliceTo(tags.v, MaxTagsShown)
             tags_str == Join(S_CommaSpace, [i \in 1..Len(shown) |-> shown[i].v])
         IN IF Len(tags.v) > MaxTagsShown
            THEN Ok(tags_str \o S_PlusOpen \o IntToStr(Len(tags.v) - MaxTagsShown)
                    \o S_MoreClose)
            ELSE Ok(tags_str)

\* faulty variant of MessageTruncated: a message is cut from 100 characters on
MessageTruncated_from_limit(message) ==
    IF ~IsStr(message) THEN Err(OtherError("TypeError", S_NoLen))
    ELSE LET truncated == IF Len(message.v) >= MaxMessageLen
                          THEN SliceTo(message.v, MaxMessageLen) \o S_Ellipsis
                          ELSE message.v
         IN Ok(Replace(truncated, S_Newline, S_Space))

\* message_truncated: message[:100] + "..." beyond 100 characters, newlines as spaces
MessageTruncated(message) ==
    IF ~IsStr(message) THEN Err(OtherError("TypeError", S_NoLen))
    ELSE LET truncated == IF Len(message.v) > MaxMessageLen
                          THEN SliceTo(message.v, MaxMessageLen) \o S_Ellipsis
                          ELSE message.v
         IN Ok(Replace(truncated, S_Newline, S_Space))

\* faulty variant of TableText: the State line comes before the Type line
TableText_swapped(monitor_id, monitor_name, monitor_type, overall_state, priority, tags_str, query, message_truncated) ==
    S_MonitorDetails
    \o Repeat(S_Equals, RuleWidth) \o S_Newline \o S_Newline
    \o S_LabelID \o Format(monitor_id) \o S_Newline
    \o S_LabelName \o Format(monitor_name) \o S_Newline
    \o S_LabelState \o Format(overall_state) \o S_Newline
    \o S_LabelType \o Format(monitor_type) \o S_Newline
    \o S_LabelPriority \o Format(priority) \o S_Newline
    \o S_LabelTags \o (IF Len(tags_str) > 0 THEN tags_str ELSE S_None) \o S_Newline
    \o S_LabelQuery \o Format(query) \o S_Newline
    \o S_LabelMessage \o (IF Len(message_truncated) > 0 THEN message_truncated ELSE S_None)
    \o S_Newline

\* lines 75-84: the block, from the values shown
TableText(monitor_id, monitor_name, monitor_type, overall_state, priority, tags_str, query, message_truncated) ==
    S_MonitorDetails
    \o Repeat(S_Equals, RuleWidth) \o S_Newline \o S_Newline
    \o S_LabelID \o Format(monitor_id) \o S_Newline
    \o S_LabelName \o Format(monitor_name) \o S_Newline
    \o S_LabelType \o Format(monitor_type) \o S_Newline
    \o S_LabelState \o Format(overall_state) \o S_Newline
    \o S_LabelPriority \o Format(priority) \o S_Newline
    \o S_LabelTags \o (IF Len(tags_str) > 0 THEN tags_str ELSE S_None) \o S_Newline
    \o S_LabelQuery \o Format(query) \o S_Newline
    \o S_LabelMessage \o (IF Len(message_truncated) > 0 THEN message_truncated ELSE S_None)
    \o S_Newline

\* faulty variant of FormatTable: an absent query is shown as "unknown"
FormatTable_query_unknown(monitor_id, monitor) ==
    LET monitor_name == DictGet(monitor, K_name, PyStr(S_Unnamed))
        monitor_type == DictGet(monitor, K_type, PyStr(S_unknown))
        overall_state == DictGet(monitor, K_overall_state, PyStr(S_unknown))
        priority == DictGet(monitor, K_priority, PyStr(S_NA))
        query == DictGet(monitor, K_query, PyStr(S_unknown))
        message == DictGet(monitor, K_message, PyStr(<<>>))
        tags == DictGet(monitor, K_tags, PyList(<<>>))
        tags_str == TagsStr(tags)
        message_truncated == MessageTruncated(message)
    IN IF ~tags_str.ok THEN tags_str
       ELSE IF ~message_truncated.ok THEN message_truncated
       ELSE Ok(TableText(monitor_id, monitor_name, monitor_type, overall_state, priority,
                         tags_str.text, query, message_truncated.text))

\* lines 60-84: the table of a monitor, or the exception raised on the way
FormatTable(monitor_id, monitor) ==
    LET monitor_name == DictGet(monitor, K_name, PyStr(S_Unnamed))
        monitor_type == DictGet(monitor, K_type, PyStr(S_unknown))
        overall_state == DictGet(monitor, K_overall_state, PyStr(S_unknown))
        priority == DictGet(monitor, K_priority, PyStr(S_NA))
        query == DictGet(monitor, K_query, PyStr(S_NA))
        message == DictGet(monitor, K_message, PyStr(<<>>))
        tags == DictGet(monitor, K_tags, PyList(<<>>))
        tags_str == TagsStr(tags)
        message_truncated == MessageTruncated(message)
    IN IF ~tags_str.ok THEN tags_str
       ELSE IF ~message_truncated.ok THEN message_truncated
       ELSE Ok(TableText(monitor_id, monitor_name, monitor_type, overall_state, priority,
                         tags_str.text, query, message_truncated.text))

\* faulty variant of get_monitor_except: only the HTTPStatusError clause
get_monitor_except_http_only(e) ==
    IF e.cls = "HTTPStatusError"
    THEN IF e.status_code = 404 THEN Return(CallToolResult(GM_MonitorNotFound, TRUE))
         ELSE IF e.status_code = 403 THEN Return(CallToolResult(GM_PermissionDenied, TRUE))
         ELSE Return(CallToolResult(GM_ErrorPrefix \o ExcStr(e), TRUE))
    ELSE Raise(e)

\* the except clauses of lines 91-112: the result returned for an exception raised
\* in the try block; an exception no clause matches leaves the handler
get_monitor_except(e) ==
    IF e.cls = "HTTPStatusError"
    THEN IF e.status_code = 404 THEN Return(CallToolResult(GM_MonitorNotFound, TRUE))
         ELSE IF e.status_code = 403 THEN Return(CallToolResult(GM_PermissionDenied, TRUE))
         ELSE Return(CallToolResult(GM_ErrorPrefix \o ExcStr(e), TRUE))
    ELSE IF e.cls \in ExceptionClasses
    THEN Return(CallToolResult(GM_ErrorPrefix \o ExcStr(e), TRUE))
    ELSE Raise(e)

\* faulty variant of get_monitor_begin: tests the key's presence, not its value
get_monitor_begin_key_only(req) ==
    LET args == Or(req.arguments, EmptyDict)
        monitor_id == DictGet(args, K_monitor_id, None)
    IN IF ~DictHas(args, K_monitor_id)
       THEN Return(CallToolResult(GM_MonitorIdRequired, TRUE))
       ELSE Await("fetch_monitor", monitor_id, EmptyDict)

\* faulty variant of get_monitor_begin: the record is obtained through update_monitor
get_monitor_begin_via_update(req) ==
    LET args == Or(req.arguments, EmptyDict)
        monitor_id == DictGet(args, K_monitor_id, None)
    IN IF IsNone(monitor_id)
       THEN Return(CallToolResult(GM_MonitorIdRequired, TRUE))
       ELSE Await("update_monitor", monitor_id, EmptyDict)

\* lines 44-55: from the entry to the await of fetch_monitor
get_monitor_begin(req) ==
    LET args == Or(req.arguments, EmptyDict)
        monitor_id == DictGet(args, K_monitor_id, None)
    IN IF IsNone(monitor_id)
       THEN Return(CallToolResult(GM_MonitorIdRequired, TRUE))
       ELSE Await("fetch_monitor", monitor_id, EmptyDict)

\* faulty variant of get_monitor_format: a request without format takes the
\* format of the invocation before it, kept in the module
get_monitor_format_sticky(req, out) ==
    IF out.kind = "raise" THEN Raise(out.exc)
    ELSE LET args == Or(req.arguments, EmptyDict)
             monitor_id == DictGet(args, K_monitor_id, None)
             last == IF history = <<>> THEN EmptyDict
                     ELSE Or(history[Len(history)].request.arguments, EmptyDict)
             format_type == DictGet(args, K_format, DictGet(last, K_format, PyStr(S_table)))
             monitor == out.value
             content == IF format_type = PyStr(S_json)
                        THEN Ok(JsonDumps(monitor))
                        ELSE FormatTable(monitor_id, monitor)
         IN IF content.ok THEN Return(CallToolResult(content.text, FALSE))
            ELSE Raise(content.exc)

\* lines 55-89: the try block from the outcome of fetch_monitor on
get_monitor_format(req, out) ==
    IF out.kind = "raise" THEN Raise(out.exc)
    ELSE LET args == Or(req.arguments, EmptyDict)
             monitor_id == DictGet(args, K_monitor_id, None)
             format_type == DictGet(args, K_format, PyStr(S_table))
             monitor == out.value
             content == IF format_type = PyStr(S_json)
                        THEN Ok(JsonDumps(monitor))
                        ELSE FormatTable(monitor_id, monitor)
         IN IF content.ok THEN Return(CallToolResult(content.text, FALSE))
            ELSE Raise(content.exc)

\* lines 55-112: from the outcome of fetch_monitor to the end of the handler
get_monitor_resume(req, out) ==
    LET step == get_monitor_format(req, out)
    IN IF step.kind = "raise" THEN get_monitor_except(step.exc) ELSE step

(***************************************************************************)
(* monitor_edit.handle_call                                                *)
(***************************************************************************)
MinPriority == 1
MaxPriority == 5

\* faulty variant of PriorityOutOfRange: the upper limit itself is refused
PriorityOutOfRange_exclusive(priority) ==
    ~IsNone(priority) /\ (priority.v < MinPriority \/ priority.v >= MaxPriority)

\* line 71: priority is not None and (priority < 1 or priority > 5)
PriorityOutOfRange(priority) ==
    ~IsNone(priority) /\ (priority.v < MinPriority \/ priority.v > MaxPriority)

\* faulty variant of SetIfNotNone: "if x:", which drops an empty str or list
SetIfNotNone_truthy(updates, k, x) == IF Truthy(x) THEN DictSet(updates, k, x) ELSE updates

\* one "if x is not None: updates[k] = x" of lines 78-85
SetIfNotNone(updates, k, x) == IF ~IsNone(x) THEN DictSet(updates, k, x) ELSE updates

\* lines 77-85: the patch
BuildUpdates(name, message, tags, priority) ==
    SetIfNotNone(
        SetIfNotNone(
            SetIfNotNone(
                SetIfNotNone(EmptyDict, K_name, name),
                K_message, message),
            K_tags, tags),
        K_priority, priority)

\* faulty variant of UpdatesEmpty: "updates is None"
UpdatesEmpty_is_None(updates) == IsNone(updates)

\* line 87: not updates
UpdatesEmpty(updates) == ~Truthy(updates)

\* faulty variant of monitor_edit_except: the 403 clause is missing
monitor_edit_except_no_403(e) ==
    IF e.cls = "HTTPStatusError"
    THEN IF e.status_code = 404 THEN Return(CallToolResult(ME_MonitorNotFound, TRUE))
         ELSE Return(CallToolResult(ME_ErrorPrefix \o ExcStr(e), TRUE))
    ELSE IF e.cls \in ExceptionClasses
    THEN Return(CallToolResult(ME_ErrorPrefix \o ExcStr(e), TRUE))
    ELSE Raise(e)

\* the except clauses of lines 100-121
monitor_edit_except(e) ==
    IF e.cls = "HTTPStatusError"
    THEN IF e.status_code = 404 THEN Return(CallToolResult(ME_MonitorNotFound, TRUE))
         ELSE IF e.status_code = 403 THEN Return(CallToolResult(ME_PermissionDenied, TRUE))
         ELSE Return(CallToolResult(ME_ErrorPrefix \o ExcStr(e), TRUE))
    ELSE IF e.cls \in ExceptionClasses
    THEN Return(CallToolResult(ME_ErrorPrefix \o ExcStr(e), TRUE))
    ELSE Raise(e)

\* faulty variant of monitor_edit_begin: the priority is checked before the monitor_id
monitor_edit_begin_priority_first(req) ==
    LET args == Or(req.arguments, EmptyDict)
        monitor_id == DictGet(args, K_monitor_id, None)
        name == DictGet(args, K_name, None)
        message == DictGet(args, K_message, None)
        tags == DictGet(args, K_tags, None)
        priority == DictGet(args, K_priority, None)
        updates == BuildUpdates(name, message, tags, priority)
    IN IF PriorityOutOfRange(priority)
       THEN Return(CallToolResult(ME_InvalidPriority, TRUE))
       ELSE IF IsNone(monitor_id)
       THEN Return(CallToolResult(ME_MonitorIdRequired, TRUE))
       ELSE IF UpdatesEmpty(updates)
       THEN Return(CallToolResult(ME_AtLeastOneField, TRUE))
       ELSE Await("update_monitor", monitor_id, updates)

\* lines 56-93: from the entry to the await of update_monitor
monitor_edit_begin(req) ==
    LET args == Or(req.arguments, EmptyDict)
        monitor_id == DictGet(args, K_monitor_id, None)
        name == DictGet(args, K_name, None)
        message == DictGet(args, K_message, None)
        tags == DictGet(args, K_tags, None)
        priority == DictGet(args, K_priority, None)
        updates == BuildUpdates(name, message, tags, priority)
    IN IF IsNone(monitor_id)
       THEN Return(CallToolResult(ME_MonitorIdRequired, TRUE))
       ELSE IF PriorityOutOfRange(priority)
       THEN Return(CallToolResult(ME_InvalidPriority, TRUE))
       ELSE IF UpdatesEmpty(updates)
       THEN Return(CallToolResult(ME_AtLeastOneField, TRUE))
       ELSE Await("update_monitor", monitor_id, updates)

\* faulty variant of monitor_edit_confirm: a failed update is confirmed too
monitor_edit_confirm_always(req, out) ==
    LET args == Or(req.arguments, EmptyDict)
        monitor_id == DictGet(args, K_monitor_id, None)
    IN Return(CallToolResult(ME_MonitorPrefix \o Format(monitor_id)
                             \o ME_UpdatedSuccessfully, FALSE))

\* lines 93-98: the try block from the outcome of update_monitor on
monitor_edit_confirm(req, out) ==
    IF out.kind = "raise" THEN Raise(out.exc)
    ELSE LET args == Or(req.arguments, EmptyDict)
             monitor_id == DictGet(args, K_monitor_id, None)
         IN Return(CallToolResult(ME_MonitorPrefix \o Format(monitor_id)
                                  \o ME_UpdatedSuccessfully, FALSE))

\* lines 93-121: from the outcome of update_monitor to the end of the handler
monitor_edit_resume(req, out) ==
    LET step == monitor_edit_confirm(req, out)
    IN IF step.kind = "raise" THEN monitor_edit_except(step.exc) ELSE step

(***************************************************************************)
(* The Remote Client (utils/datadog_client.py) and the monitoring service. *)
(* A reply is [status, body]; status 0 stands for a request that got no    *)
(* response (a transport failure).                                         *)
(***************************************************************************)
\* "Not Found"
S_NotFound == <<"N", "o", "t", " ", "F", "o", "u", "n", "d">>

\* "Forbidden"
S_Forbidden == <<"F", "o", "r", "b", "i", "d", "d", "e", "n">>

\* "Internal Server Error"
S_ServerError == <<"I", "n", "t", "e", "r", "n", "a", "l", " ", "S", "e", "r", "v", "e",
    "r", " ", "E", "r", "r", "o", "r">>

\* "API error"
S_ApiError == <<"A", "P", "I", " ", "e", "r", "r", "o", "r">>


Reply(status, body) == [status |-> status, body |-> body]

\* the statuses with which the service may refuse any request
RefusalStatuses == {403, 500}

Exists(svc, id) == IsInt(id) /\ id.v \in DOMAIN svc

\* the replies the service may give to GET /monitor/{id}
GetReplies(svc, id) ==
    (IF Exists(svc, id) THEN {Reply(200, svc[id.v])} ELSE {Reply(404, None)})
    \cup {Reply(st, None) : st \in RefusalStatuses \cup {0}}

\* the replies the service may give to PUT /monitor/{id} with a body
PutReplies(svc, id, body) ==
    (IF Exists(svc, id) THEN {Reply(200, body)} ELSE {Reply(404, None)})
    \cup {Reply(st, None) : st \in RefusalStatuses \cup {0}}

ReasonPhrase(status) ==
    CASE status = 404 -> S_NotFound
      [] status = 403 -> S_Forbidden
      [] OTHER -> S_ServerError

\* response.raise_for_status(); return response.json()
ClientOutcome(reply) ==
    IF reply.status = 0 THEN Raised(OtherError("ConnectError", S_ApiError))
    ELSE IF reply.status >= 400
    THEN Raised(HTTPStatusError(reply.status, ReasonPhrase(reply.status)))
    ELSE Returned(reply.body)

\* faulty variant of Overlay: the body of the write holds the patch alone
Overlay_patch_only(current, updates) == updates

\* update_monitor's write body: the record read, overlaid with the patch
RECURSIVE Overlay(_, _)
Overlay(current, updates) ==
    IF Len(updates.v) = 0 THEN current
    ELSE Overlay(DictSet(current, updates.v[1][1], updates.v[1][2]),
                 PyDict(Tail(updates.v)))

HttpRequest(method, id, body) == [method |-> method, id |-> id, body |-> body]

\* faulty variant of update_monitor_write: the write is sent whatever the read gave
update_monitor_write_always(monitor_id, kwargs, got) ==
    [kind |-> "send",
     request |-> HttpRequest("PUT", monitor_id,
                             Overlay(IF got.kind = "return" THEN got.value ELSE EmptyDict,
                                     kwargs))]

\* update_monitor after its read: the error of the read goes to the caller, or the
\* record read is overlaid with the patch and sent as the body of the write
update_monitor_write(monitor_id, kwargs, got) ==
    IF got.kind = "raise" THEN got
    ELSE [kind |-> "send",
          request |-> HttpRequest("PUT", monitor_id, Overlay(got.value, kwargs))]
ClientCall(op, monitor_id, kwargs) == [op |-> op, monitor_id |-> monitor_id, kwargs |-> kwargs]

(***************************************************************************)
(* The monitors on the service and the requests of the callers: the        *)
(* records and arguments of the repository's tests, and the boundary cases *)
(* around them.                                                            *)
(***************************************************************************)
\* "CPU High Alert"
V_CpuHighAlert == <<"C", "P", "U", " ", "H", "i", "g", "h", " ", "A", "l", "e", "r", "t">>

\* "Test Monitor"
V_TestMonitor == <<"T", "e", "s", "t", " ", "M", "o", "n", "i", "t", "o", "r">>

\* "Memory Usage Alert"
V_MemoryUsageAlert == <<"M", "e", "m", "o", "r", "y", " ", "U", "s", "a", "g", "e", " ",
    "A", "l", "e", "r", "t">>

\* "Disk "C:\\" full"
V_QuotedName == <<"D", "i", "s", "k", " ", "\"", "C", ":", "\\", "\"", " ", "f", "u", "l",
    "l">>

\* "metric alert"
V_MetricAlert == <<"m", "e", "t", "r", "i", "c", " ", "a", "l", "e", "r", "t">>

\* "OK"
V_OK == <<"O", "K">>

\* "Alert"
V_Alert == <<"A", "l", "e", "r", "t">>

\* "avg(last_5m):avg:system.cpu.user{*} > 90"
V_CpuQuery == <<"a", "v", "g", "(", "l", "a", "s", "t", "_", "5", "m", ")", ":", "a", "v",
    "g", ":", "s", "y", "s", "t", "e", "m", ".", "c", "p", "u", ".", "u", "s", "e", "r",
    "{", "*", "}", " ", ">", " ", "9", "0">>

\* "test query"
V_TestQuery == <<"t", "e", "s", "t", " ", "q", "u", "e", "r", "y">>

\* "CPU usage is too high"
V_CpuMessage == <<"C", "P", "U", " ", "u", "s", "a", "g", "e", " ", "i", "s", " ", "t",
    "o", "o", " ", "h", "i", "g", "h">>

\* "Memory usage critical!\n@slack-alerts"
V_MemoryMessage == <<"M", "e", "m", "o", "r", "y", " ", "u", "s", "a", "g", "e", " ", "c",
    "r", "i", "t", "i", "c", "a", "l", "!", "\n", "@", "s", "l", "a", "c", "k", "-", "a",
    "l", "e", "r", "t", "s">>

\* "env:prod"
V_EnvProd == <<"e", "n", "v", ":", "p", "r", "o", "d">>

\* "team:backend"
V_TeamBackend == <<"t", "e", "a", "m", ":", "b", "a", "c", "k", "e", "n", "d">>

\* "service:api"
V_ServiceApi == <<"s", "e", "r", "v", "i", "c", "e", ":", "a", "p", "i">>

\* "tag"
V_TagPrefix == <<"t", "a", "g">>

\* "New Name"
V_NewName == <<"N", "e", "w", " ", "N", "a", "m", "e">>

\* "New message"
V_NewMessage == <<"N", "e", "w", " ", "m", "e", "s", "s", "a", "g", "e">>

\* "env:staging"
V_EnvStaging == <<"e", "n", "v", ":", "s", "t", "a", "g", "i", "n", "g">>


\* the longest tag list of a stored monitor
MaxTags == 7
\* request priorities range from MinPriority - PriorityMargin to MaxPriority + PriorityMargin
PriorityMargin == 2

Monitor(id, name, type, state, priority, query, message, tags) ==
    PyDict(<< <<K_id, PyInt(id)>>, <<K_name, name>>, <<K_type, type>>,
              <<K_overall_state, state>>, <<K_priority, priority>>, <<K_query, query>>,
              <<K_message, message>>, <<K_tags, tags>> >>)

\* ["tag1", ..., "tag<n>"]
TagList(n) == PyList([i \in 1..n |-> PyStr(V_TagPrefix \o IntToStr(i))])

\* a message of n characters: "A"s, with a newline at every 50th place when nl
MessageOf(n, nl) == PyStr([i \in 1..n |-> IF nl /\ i % 50 = 0 THEN "\n" ELSE "A"])

\* the message length that goes with a list of n tags: 99, 100, 101 around the
\* limit, 200 and more beyond
MessageLenFor(n) ==
    IF n <= MaxTagsShown + 1 THEN MaxMessageLen + n - MaxTagsShown
    ELSE 2 * MaxMessageLen + n - (MaxTagsShown + 2)

\* monitors at the limits of the table: 4..MaxTags tags, messages around 100 characters
BoundaryMonitor(n) ==
    Monitor(12345, PyStr(V_TestMonitor), PyStr(V_MetricAlert), PyStr(V_OK), PyInt(2),
            PyStr(V_TestQuery), MessageOf(MessageLenFor(n), n % 2 = 0), TagList(n))

CpuMonitor ==
    Monitor(12345, PyStr(V_CpuHighAlert), PyStr(V_MetricAlert), PyStr(V_OK), PyInt(2),
            PyStr(V_CpuQuery), PyStr(V_CpuMessage),
            PyList(<<PyStr(V_EnvProd), PyStr(V_TeamBackend)>>))

\* the record of test_handle_get_monitor_default_format
NullPriorityMonitor ==
    Monitor(12345, PyStr(V_TestMonitor), PyStr(V_MetricAlert), PyStr(V_OK), None,
            PyStr(V_TestQuery), PyStr(<<>>), PyList(<<>>))

\* a record with none of the attributes the table shows
BareMonitor == PyDict(<< <<K_id, PyInt(12345)>> >>)

\* a record with some of the attributes only
PartialMonitor ==
    PyDict(<< <<K_id, PyInt(12345)>>, <<K_name, PyStr(V_TestMonitor)>>,
              <<K_tags, PyList(<<PyStr(V_EnvProd)>>)>> >>)

QuotedMonitor ==
    Monitor(12345, PyStr(V_QuotedName), PyStr(V_MetricAlert), PyStr(V_Alert), PyInt(1),
            PyStr(V_CpuQuery), PyStr(V_MemoryMessage), PyList(<<PyStr(V_EnvProd)>>))

\* records the table cannot be rendered from
NullTagsMonitor ==
    Monitor(12345, PyStr(V_TestMonitor), PyStr(V_MetricAlert), PyStr(V_OK), PyInt(3),
            PyStr(V_TestQuery), PyStr(V_CpuMessage), None)
NullMessageMonitor ==
    Monitor(12345, PyStr(V_TestMonitor), PyStr(V_MetricAlert), PyStr(V_OK), PyInt(3),
            PyStr(V_TestQuery), None, PyList(<<PyStr(V_EnvProd)>>))

SampleMonitors ==
    {BoundaryMonitor(n) : n \in (MaxTagsShown - 1)..MaxTags}
    \cup {CpuMonitor, NullPriorityMonitor, BareMonitor, PartialMonitor, QuotedMonitor,
          NullTagsMonitor, NullMessageMonitor}

\* the record of test_fetch_monitor_with_all_fields
MemoryMonitor ==
    Monitor(99999, PyStr(V_MemoryUsageAlert), PyStr(V_MetricAlert), PyStr(V_Alert),
            PyInt(1), PyStr(V_TestQuery), PyStr(V_MemoryMessage),
            PyList(<<PyStr(V_EnvProd), PyStr(V_ServiceApi)>>))

\* 12345 and 99999 are monitors of the service, 99999999 is not
MonitorIdValues == {None, PyInt(12345), PyInt(99999999)}
FormatValues == {PyStr(S_table), PyStr(S_json)}
NameValues == {None, PyStr(<<>>), PyStr(V_NewName)}
MessageValues == {None, PyStr(V_NewMessage)}
TagsValues == {None, PyList(<<>>), PyList(<<PyStr(V_EnvStaging)>>)}
PriorityValues ==
    {None} \cup {PyInt(n) : n \in (MinPriority - PriorityMargin)..(MaxPriority + PriorityMargin)}

\* the items of an optional argument: the key absent, or present with one of the values
Opt(k, values) == {<<>>} \cup {<< <<k, x>> >> : x \in values}

Request(arguments) == [arguments |-> arguments]

GetRequests ==
    {Request(None)}
    \cup {Request(PyDict(i \o f)) :
            i \in Opt(K_monitor_id, MonitorIdValues), f \in Opt(K_format, FormatValues)}

EditRequests ==
    {Request(None)}
    \cup {Request(PyDict(i \o n \o m \o t \o p)) :
            i \in Opt(K_monitor_id, MonitorIdValues), n \in Opt(K_name, NameValues),
            m \in Opt(K_message, MessageValues), t \in Opt(K_tags, TagsValues),
            p \in Opt(K_priority, PriorityValues)}

(***************************************************************************)
(* The state machine: one handler invocation, from the call to the result, *)
(* with the service answering each HTTP request in between.                *)
(***************************************************************************)
Init ==
    /\ remote \in {(12345 :> m) @@ (99999 :> MemoryMonitor) : m \in SampleMonitors}
    /\ pc = "idle"
    /\ tool = "none"
    /\ request = Request(None)
    /\ calls = <<>>
    /\ http = <<>>
    /\ outcome = NoOutcome
    /\ result = NoResult
    /\ ncalls = 0
    /\ replies = <<>>
    /\ before = remote
    /\ external = <<>>
    /\ history = <<>>

\* the handler ends: with the result it returns, or with an exception that leaves it
End(step) ==
    IF step.kind = "return"
    THEN result' = step.result /\ pc' = "done"
    ELSE result' = result /\ pc' = "raised"

\* faulty variant of Begin: the request of the first await is sent a second time
Begin_send_twice(t, req, step) ==
    /\ tool' = t
    /\ request' = req
    /\ ncalls' = ncalls + 1
    /\ IF step.kind # "await"
       THEN /\ End(step)
            /\ UNCHANGED <<calls, http>>
       ELSE /\ calls' = Append(calls, ClientCall(step.op, step.monitor_id, step.kwargs))
            /\ http' = http \o << HttpRequest("GET", step.monitor_id, None),
                                  HttpRequest("GET", step.monitor_id, None) >>
            /\ pc' = IF step.op = "fetch_monitor" THEN "fetch_monitor" ELSE "update_monitor_get"
            /\ UNCHANGED result
    /\ before' = remote
    /\ UNCHANGED <<remote, outcome, replies, external, history>>

\* the handler runs from its entry to its first await, or to an early return
Begin(t, req, step) ==
    /\ tool' = t
    /\ request' = req
    /\ ncalls' = ncalls + 1
    /\ IF step.kind # "await"
       THEN /\ End(step)
            /\ UNCHANGED <<calls, http>>
       ELSE /\ calls' = Append(calls, ClientCall(step.op, step.monitor_id, step.kwargs))
            /\ http' = Append(http, HttpRequest("GET", step.monitor_id, None))
            /\ pc' = IF step.op = "fetch_monitor" THEN "fetch_monitor" ELSE "update_monitor_get"
            /\ UNCHANGED result
    /\ before' = remote
    /\ UNCHANGED <<remote, outcome, replies, external, history>>

CallGetMonitor ==
    /\ pc = "idle"
    /\ \E req \in GetRequests : Begin("get_monitor", req, get_monitor_begin(req))

CallMonitorEdit ==
    /\ pc = "idle"
    /\ \E req \in EditRequests : Begin("monitor_edit", req, monitor_edit_begin(req))

\* the service answers fetch_monitor's GET and get_monitor runs to its end
FetchMonitorReply ==
    /\ pc = "fetch_monitor"
    /\ \E reply \in GetReplies(remote, calls[Len(calls)].monitor_id) :
          /\ replies' = Append(replies, reply)
          /\ outcome' = ClientOutcome(reply)
          /\ End(get_monitor_resume(request, ClientOutcome(reply)))
    /\ UNCHANGED <<remote, tool, request, calls, http, ncalls, before, external, history>>

\* the service answers update_monitor's GET: the client sends the PUT, or fails
UpdateMonitorGetReply ==
    /\ pc = "update_monitor_get"
    /\ \E reply \in GetReplies(remote, calls[Len(calls)].monitor_id) :
          LET call == calls[Len(calls)]
              step == update_monitor_write(call.monitor_id, call.kwargs, ClientOutcome(reply))
          IN /\ replies' = Append(replies, reply)
             /\ IF step.kind = "raise"
                THEN /\ outcome' = step
                     /\ End(monitor_edit_resume(request, step))
                     /\ UNCHANGED http
                ELSE /\ http' = Append(http, step.request)
                     /\ pc' = "update_monitor_put"
                     /\ UNCHANGED <<outcome, result>>
    /\ UNCHANGED <<remote, tool, request, calls, ncalls, before, external, history>>

\* faulty variant of WriteReplies: a write to a monitor that is no longer the
\* record that was read is refused with 409
WriteReplies_checked ==
    IF Exists(remote, http[Len(http)].id) /\ remote[http[Len(http)].id.v] # replies[1].body
    THEN {Reply(409, None)}
    ELSE PutReplies(remote, http[Len(http)].id, http[Len(http)].body)

\* the replies the service may give to the write of the update in progress
WriteReplies == PutReplies(remote, http[Len(http)].id, http[Len(http)].body)

\* the service answers update_monitor's PUT and monitor_edit runs to its end
UpdateMonitorPutReply ==
    /\ pc = "update_monitor_put"
    /\ \E reply \in WriteReplies :
          /\ replies' = Append(replies, reply)
          /\ outcome' = ClientOutcome(reply)
          /\ End(monitor_edit_resume(request, ClientOutcome(reply)))
          /\ remote' = IF reply.status = 200
                       THEN [remote EXCEPT ![http[Len(http)].id.v] = reply.body]
                       ELSE remote
    /\ UNCHANGED <<tool, request, calls, http, ncalls, before, external, history>>

Next ==
    \/ CallGetMonitor
    \/ CallMonitorEdit
    \/ FetchMonitorReply
    \/ UpdateMonitorGetReply
    \/ UpdateMonitorPutReply

Spec == Init /\ [][Next]_vars

(***************************************************************************)
(* Sequences of invocations.  The server dispatches one request after the  *)
(* other to the handlers, while other clients of the service may modify a  *)
(* monitor at any moment, also between the read and the write of an        *)
(* update.                                                                 *)
(***************************************************************************)
\* the number of invocations in a run
MaxCalls == 2
\* the number of modifications other clients make while one invocation runs
MaxExternal == 1

SeqMonitorIdValues == {PyInt(12345), PyInt(99999), PyInt(99999999)}

SeqGetRequests ==
    {Request(PyDict(i \o f)) :
        i \in Opt(K_monitor_id, SeqMonitorIdValues), f \in Opt(K_format, {PyStr(S_json)})}

SeqEditRequests ==
    {Request(PyDict(i \o n \o t \o p)) :
        i \in Opt(K_monitor_id, SeqMonitorIdValues),
        n \in Opt(K_name, {PyStr(V_NewName)}),
        t \in Opt(K_tags, {PyList(<<PyStr(V_EnvStaging)>>)}),
        p \in Opt(K_priority, {PyInt(MinPriority), PyInt(MaxPriority + 1)})}

\* what another client may set on a monitor
ExternalChanges == {<<K_message, PyStr(V_NewMessage)>>}

SeqInit ==
    /\ remote = (12345 :> CpuMonitor) @@ (99999 :> MemoryMonitor)
    /\ pc = "idle"
    /\ tool = "none"
    /\ request = Request(None)
    /\ calls = <<>>
    /\ http = <<>>
    /\ outcome = NoOutcome
    /\ result = NoResult
    /\ ncalls = 0
    /\ replies = <<>>
    /\ before = remote
    /\ external = <<>>
    /\ history = <<>>

SeqCallGetMonitor ==
    /\ pc = "idle"
    /\ ncalls < MaxCalls
    /\ \E req \in SeqGetRequests : Begin("get_monitor", req, get_monitor_begin(req))

SeqCallMonitorEdit ==
    /\ pc = "idle"
    /\ ncalls < MaxCalls
    /\ \E req \in SeqEditRequests : Begin("monitor_edit", req, monitor_edit_begin(req))

\* the invocation has returned its result; the server is ready for the next request
NextCall ==
    /\ pc = "done"
    /\ ncalls < MaxCalls
    /\ pc' = "idle"
    /\ tool' = "none"
    /\ request' = Request(None)
    /\ calls' = <<>>
    /\ http' = <<>>
    /\ replies' = <<>>
    /\ outcome' = NoOutcome
    /\ result' = NoResult
    /\ before' = remote
    /\ external' = <<>>
    /\ UNCHANGED <<remote, ncalls, history>>

\* another client of the service sets an attribute of a monitor
ExternalModify ==
    /\ Len(external) < MaxExternal
    /\ \E id \in DOMAIN remote, change \in ExternalChanges :
          /\ DictGet(remote[id], change[1], None) # change[2]
          /\ remote' = [remote EXCEPT ![id] = DictSet(@, change[1], change[2])]
          /\ external' = Append(external, [id |-> id, key |-> change[1], value |-> change[2],
                                           pc |-> pc])
    /\ UNCHANGED <<pc, tool, request, calls, http, outcome, result, ncalls, replies, before,
                   history>>

SeqNext ==
    \/ SeqCallGetMonitor
    \/ SeqCallMonitorEdit
    \/ FetchMonitorReply
    \/ UpdateMonitorGetReply
    \/ UpdateMonitorPutReply
    \/ NextCall
    \/ ExternalModify

SpecSeq == SeqInit /\ [][SeqNext]_vars

(***************************************************************************)
(* Sequences of invocations with the record of what each was given and     *)
(* what it returned: the request, the replies of the service and the       *)
(* result.                                                                 *)
(***************************************************************************)
\* the number of invocations in a recorded run
MaxHistory == 3

HistGetRequests ==
    {Request(PyDict(i \o f)) :
        i \in Opt(K_monitor_id, {PyInt(12345)}), f \in Opt(K_format, {PyStr(S_json)})}

HistEditRequests ==
    {Request(PyDict(i \o n)) :
        i \in Opt(K_monitor_id, {PyInt(12345)}), n \in Opt(K_name, {PyStr(V_NewName)})}

HistCallGetMonitor ==
    /\ pc = "idle"
    /\ ncalls < MaxHistory
    /\ \E req \in HistGetRequests : Begin("get_monitor", req, get_monitor_begin(req))

HistCallMonitorEdit ==
    /\ pc = "idle"
    /\ ncalls < MaxHistory
    /\ \E req \in HistEditRequests : Begin("monitor_edit", req, monitor_edit_begin(req))

\* the invocation has returned its result; what it was given and what it returned
\* is put on record, and the server is ready for the next request
ReturnAndRecord ==
    /\ pc = "done"
    /\ history' = Append(history, [tool |-> tool, request |-> request,
                                   replies |-> replies, result |-> result])
    /\ pc' = "idle"
    /\ tool' = "none"
    /\ request' = Request(None)
    /\ calls' = <<>>
    /\ http' = <<>>
    /\ replies' = <<>>
    /\ outcome' = NoOutcome
    /\ result' = NoResult
    /\ before' = remote
    /\ UNCHANGED <<remote, ncalls, external>>

HistNext ==
    \/ HistCallGetMonitor
    \/ HistCallMonitorEdit
    \/ FetchMonitorReply
    \/ UpdateMonitorGetReply
    \/ UpdateMonitorPutReply
    \/ ReturnAndRecord

SpecHist == SeqInit /\ [][HistNext]_vars

(***************************************************************************)
(* Properties.  The texts and the request's arguments are restated here    *)
(* apart from the handlers' own definitions.                               *)
(***************************************************************************)
\* "monitor_id"
T_monitor_id == <<"m", "o", "n", "i", "t", "o", "r", "_", "i", "d">>

\* "priority"
T_priority == <<"p", "r", "i", "o", "r", "i", "t", "y">>

\* "at least one field"
T_at_least_one_field == <<"a", "t", " ", "l", "e", "a", "s", "t", " ", "o", "n", "e", " ",
    "f", "i", "e", "l", "d">>

\* "Monitor not found"
T_MonitorNotFound == <<"M", "o", "n", "i", "t", "o", "r", " ", "n", "o", "t", " ", "f",
    "o", "u", "n", "d">>

\* "Permission denied"
T_PermissionDenied == <<"P", "e", "r", "m", "i", "s", "s", "i", "o", "n", " ", "d", "e",
    "n", "i", "e", "d">>

\* "Error: "
T_ErrorPrefix == <<"E", "r", "r", "o", "r", ":", " ">>

\* "Monitor "
T_Monitor == <<"M", "o", "n", "i", "t", "o", "r", " ">>

\* " updated successfully"
T_updated_successfully == <<" ", "u", "p", "d", "a", "t", "e", "d", " ", "s", "u", "c",
    "c", "e", "s", "s", "f", "u", "l", "l", "y">>

\* "Monitor Details"
T_MonitorDetails == <<"M", "o", "n", "i", "t", "o", "r", " ", "D", "e", "t", "a", "i", "l",
    "s">>

\* "json"
T_json == <<"j", "s", "o", "n">>

\* "table"
T_table == <<"t", "a", "b", "l", "e">>

\* "None"
T_None == <<"N", "o", "n", "e">>


\* the arguments of the request: no argument at all when arguments is None
ReqArgs == IF IsNone(request.arguments) THEN EmptyDict ELSE request.arguments

\* the value supplied for an argument; None when the key is absent or its value null
Arg(k) == IF DictHas(ReqArgs, k) THEN DictGet(ReqArgs, k, None) ELSE None

MonitorIdSupplied == ~IsNone(Arg(K_monitor_id))
PatchKeys == {K_name, K_message, K_tags, K_priority}
SuppliedFields == {k \in PatchKeys : ~IsNone(Arg(k))}
PriorityValid == IsNone(Arg(K_priority)) \/ (Arg(K_priority).v >= 1 /\ Arg(K_priority).v <= 5)
PassesValidation == MonitorIdSupplied /\ PriorityValid /\ SuppliedFields # {}

Started == pc # "idle"
Text == result.content[1].text
Failed == Len(result.content) = 1 /\ result.isError = TRUE
NoNetwork == calls = <<>> /\ http = <<>>

\* C1: in both handlers a request without monitor_id (arguments None, key absent
\* or value null) ends at once in a failure whose text contains "monitor_id", and
\* neither a Remote Client call nor an HTTP request is made for it.
C1_MissingMonitorIdRejected ==
    (Started /\ ~MonitorIdSupplied) =>
        /\ pc = "done"
        /\ Failed
        /\ Contains(Text, T_monitor_id)
        /\ NoNetwork

\* monitor_edit was called with an explicit null monitor_id next to a name, and returned
C1_Witness ==
    /\ pc = "done"
    /\ tool = "monitor_edit"
    /\ DictHas(ReqArgs, K_monitor_id)
    /\ ~MonitorIdSupplied
    /\ ~IsNone(Arg(K_name))

\* C2: monitor_edit with a monitor_id: a priority outside 1..5 ends in a failure
\* whose text contains "priority" with no update_monitor call, whatever the other
\* fields are; a priority within 1..5 passes and update_monitor is called.
C2_PriorityRange ==
    (tool = "monitor_edit" /\ Started /\ MonitorIdSupplied /\ IsInt(Arg(K_priority))) =>
        IF Arg(K_priority).v < 1 \/ Arg(K_priority).v > 5
        THEN pc = "done" /\ Failed /\ Contains(Text, T_priority) /\ NoNetwork
        ELSE Len(calls) = 1 /\ calls[1].op = "update_monitor" /\ Len(http) >= 1

\* monitor_edit was called with priority 6 next to a name and tags, and returned
C2_Witness ==
    /\ pc = "done"
    /\ tool = "monitor_edit"
    /\ MonitorIdSupplied
    /\ Arg(K_priority) = PyInt(6)
    /\ ~IsNone(Arg(K_name))
    /\ ~IsNone(Arg(K_tags))

\* C3: monitor_edit with a monitor_id and every one of name, message, tags,
\* priority absent or null ends in a failure whose text contains "at least one
\* field" (whatever the case of its letters) with no update_monitor call; and
\* update_monitor is never called with an empty patch.
C3_EmptyPatchRejected ==
    /\ (tool = "monitor_edit" /\ Started /\ MonitorIdSupplied /\ SuppliedFields = {}) =>
          pc = "done" /\ Failed /\ Contains(Lower(Text), T_at_least_one_field) /\ NoNetwork
    /\ \A i \in 1..Len(calls) :
          calls[i].op = "update_monitor" => Len(calls[i].kwargs.v) > 0

\* monitor_edit was called with a monitor_id, a null name and a null priority only
C3_Witness ==
    /\ pc = "done"
    /\ tool = "monitor_edit"
    /\ MonitorIdSupplied
    /\ SuppliedFields = {}
    /\ DictHas(ReqArgs, K_name)
    /\ DictHas(ReqArgs, K_priority)

\* C4: a monitor_edit request that passes validation calls update_monitor exactly
\* once, with the request's monitor_id and a patch whose keys are exactly the
\* fields supplied non-null, each with the supplied value; an empty string or an
\* empty list is a supplied value, and the call reaches the network.
C4_PatchIsSuppliedFields ==
    (tool = "monitor_edit" /\ Started /\ PassesValidation) =>
        /\ Len(calls) = 1
        /\ calls[1].op = "update_monitor"
        /\ calls[1].monitor_id = Arg(K_monitor_id)
        /\ DictKeys(calls[1].kwargs) = SuppliedFields
        /\ Len(calls[1].kwargs.v) = Cardinality(SuppliedFields)
        /\ \A k \in SuppliedFields : DictGet(calls[1].kwargs, k, None) = Arg(k)
        /\ Len(http) >= 1

\* monitor_edit was called with an empty name and an empty tag list as its only fields
C4_Witness ==
    /\ tool = "monitor_edit"
    /\ Len(calls) = 1
    /\ Arg(K_name) = PyStr(<<>>)
    /\ Arg(K_tags) = PyList(<<>>)
    /\ SuppliedFields = {K_name, K_tags}

\* the text both handlers are to give for a failure of the Remote Client
FailureText(e) ==
    IF e.cls = "HTTPStatusError" /\ e.status_code = 404 THEN T_MonitorNotFound
    ELSE IF e.cls = "HTTPStatusError" /\ e.status_code = 403 THEN T_PermissionDenied
    ELSE T_ErrorPrefix \o e.msg

\* C5: in both handlers a failure of the Remote Client ends in a failure result
\* whose text depends on that failure alone: "Monitor not found" for an HTTP 404,
\* "Permission denied" for an HTTP 403, "Error: " and the failure's message for
\* any other HTTP status and any other exception.
C5_FailureTextByError ==
    outcome.kind = "raise" => pc = "done" /\ Failed /\ Text = FailureText(outcome.exc)

\* monitor_edit's write was refused with an HTTP 403
C5_Witness ==
    /\ pc = "done"
    /\ tool = "monitor_edit"
    /\ Len(http) = 2
    /\ outcome.kind = "raise"
    /\ outcome.exc.cls = "HTTPStatusError"
    /\ outcome.exc.status_code = 403

\* "Error: monitor_id is required"
T_MonitorIdRequired == <<"E", "r", "r", "o", "r", ":", " ", "m", "o", "n", "i", "t", "o",
    "r", "_", "i", "d", " ", "i", "s", " ", "r", "e", "q", "u", "i", "r", "e", "d">>

\* "Invalid priority: must be 1-5"
T_InvalidPriority == <<"I", "n", "v", "a", "l", "i", "d", " ", "p", "r", "i", "o", "r",
    "i", "t", "y", ":", " ", "m", "u", "s", "t", " ", "b", "e", " ", "1", "-", "5">>

\* "At least one field to update is required"
T_AtLeastOneField == <<"A", "t", " ", "l", "e", "a", "s", "t", " ", "o", "n", "e", " ",
    "f", "i", "e", "l", "d", " ", "t", "o", " ", "u", "p", "d", "a", "t", "e", " ", "i",
    "s", " ", "r", "e", "q", "u", "i", "r", "e", "d">>

\* "==============="
T_Rule == <<"=", "=", "=", "=", "=", "=", "=", "=", "=", "=", "=", "=", "=", "=", "=">>


EndsWith(s, e) == Len(e) <= Len(s) /\ SubSeq(s, Len(s) - Len(e) + 1, Len(s)) = e

\* the lines of a text: line k ends at the k-th newline
NewlinesOf(s) == {i \in 1..Len(s) : s[i] = "\n"}
LineCount(s) == Cardinality(NewlinesOf(s))
NthNewline(s, k) ==
    CHOOSE p \in NewlinesOf(s) : Cardinality({q \in NewlinesOf(s) : q < p}) = k - 1
Line(s, k) ==
    SubSeq(s, IF k = 1 THEN 1 ELSE NthNewline(s, k - 1) + 1, NthNewline(s, k) - 1)

\* the labels of the table's lines 4..11, in order
TableLabels ==
    <<<<"I", "D", ":">>, <<"N", "a", "m", "e", ":">>, <<"T", "y", "p", "e", ":">>,
      <<"S", "t", "a", "t", "e", ":">>, <<"P", "r", "i", "o", "r", "i", "t", "y", ":">>,
      <<"T", "a", "g", "s", ":">>, <<"Q", "u", "e", "r", "y", ":">>,
      <<"M", "e", "s", "s", "a", "g", "e", ":">>>>

\* a whole table: the heading, the rule, a blank line and the eight labelled lines
IsWholeTable(t) ==
    /\ LineCount(t) = 11
    /\ t[Len(t)] = "\n"
    /\ Line(t, 1) = T_MonitorDetails
    /\ Line(t, 2) = T_Rule
    /\ Line(t, 3) = <<>>
    /\ \A k \in 1..8 : StartsWith(Line(t, k + 3), TableLabels[k])

WantsJson == Arg(K_format) = PyStr(T_json)
WantsTable == IsNone(Arg(K_format)) \/ Arg(K_format) = PyStr(T_table)

SuccessText == T_Monitor \o IntToStr(Arg(K_monitor_id).v) \o T_updated_successfully

\* one of the error messages of the handlers, and nothing of a rendered output
IsErrorMessage(t) ==
    /\ \/ t \in {T_MonitorIdRequired, T_InvalidPriority, T_AtLeastOneField,
                 T_MonitorNotFound, T_PermissionDenied}
       \/ StartsWith(t, T_ErrorPrefix)
    /\ ~Contains(t, T_MonitorDetails)
    /\ NewlinesOf(t) = {}

\* the whole output of the invocation's tool
IsWholeOutput(t) ==
    IF tool = "monitor_edit" THEN t = SuccessText
    ELSE IF WantsJson THEN JsonLoads(t).ok
    ELSE IsWholeTable(t)

\* the tags and the message of a record are of the types the table is made from
Formattable(monitor) ==
    /\ IsList(DictGet(monitor, K_tags, PyList(<<>>)))
    /\ IsStr(DictGet(monitor, K_message, PyStr(<<>>)))

\* C6: whatever the request and whatever the Remote Client does (a record, an HTTP
\* status error, any other failure, a record the table cannot be made from), no
\* exception leaves a handler; an invocation under way can always go on; it has no
\* result before it ends, and ends with one text block and a flag: flag false with
\* the whole output, or flag true with one error message, never part of an output.
C6_OneResultNoEscape ==
    /\ pc # "raised"
    /\ pc \in {"fetch_monitor", "update_monitor_get", "update_monitor_put"} =>
          result = NoResult /\ ENABLED Next
    /\ pc = "done" =>
          /\ Len(result.content) = 1
          /\ result.content[1].type = "text"
          /\ result.isError \in BOOLEAN
          /\ IF result.isError THEN IsErrorMessage(Text) ELSE IsWholeOutput(Text)
          /\ ~result.isError => outcome.kind = "return"
          /\ (~result.isError /\ tool = "get_monitor" /\ WantsTable) =>
                Formattable(outcome.value)

\* get_monitor fetched a record with null tags for a table, and returned a failure
C6_Witness ==
    /\ pc = "done"
    /\ tool = "get_monitor"
    /\ WantsTable
    /\ outcome.kind = "return"
    /\ ~Formattable(outcome.value)
    /\ result.isError

\* C7: monitor_edit returns "Monitor <monitor_id> updated successfully" with the
\* flag false exactly when the request passed validation and update_monitor
\* returned (its read and its write both answered); never before, never on failure.
C7_SuccessIffUpdated ==
    tool = "monitor_edit" =>
        /\ pc # "done" => result = NoResult
        /\ pc = "done" =>
              /\ ~result.isError <=>
                    /\ PassesValidation
                    /\ outcome.kind = "return"
                    /\ Len(http) = 2
                    /\ http[2].method = "PUT"
              /\ ~result.isError => Text = SuccessText
              /\ result.isError => (~MonitorIdSupplied \/ Text # SuccessText)

\* monitor_edit renamed monitor 12345 and returned its confirmation
C7_Witness ==
    /\ pc = "done"
    /\ tool = "monitor_edit"
    /\ ~result.isError
    /\ Arg(K_monitor_id) = PyInt(12345)
    /\ Arg(K_name) = PyStr(V_NewName)
    /\ DictGet(remote[12345], K_name, None) = PyStr(V_NewName)

\* C8: get_monitor with format "json" returns, flag false, a text that parses back
\* as JSON to the record fetch_monitor returned (its id, name, priority and every
\* other field unchanged).
C8_JsonRoundTrip ==
    (tool = "get_monitor" /\ pc = "done" /\ WantsJson /\ outcome.kind = "return") =>
        /\ Len(result.content) = 1
        /\ result.isError = FALSE
        /\ JsonLoads(Text).ok
        /\ JsonLoads(Text).v = outcome.value
        /\ \A k \in {K_id, K_name, K_priority} :
              DictHas(outcome.value, k) =>
                  DictGet(JsonLoads(Text).v, k, None) = DictGet(outcome.value, k, None)

\* get_monitor returned as JSON a record whose name holds quotes and a backslash
C8_Witness ==
    /\ pc = "done"
    /\ tool = "get_monitor"
    /\ WantsJson
    /\ outcome.kind = "return"
    /\ DictGet(outcome.value, K_name, None) = PyStr(V_QuotedName)
    /\ ~result.isError

\* C9: get_monitor with format "table" or none, on a fetched record the table can
\* be made from, returns the heading "Monitor Details", a rule of 15 "=", a blank
\* line, then exactly the lines ID, Name, Type, State, Priority, Tags, Query,
\* Message in this order; the ID line ends with the monitor_id, and the Name, Type
\* and State lines with the record's name, type and overall_state.
C9_TableLayout ==
    (tool = "get_monitor" /\ pc = "done" /\ WantsTable /\ outcome.kind = "return"
        /\ Formattable(outcome.value)) =>
        /\ Len(result.content) = 1
        /\ result.isError = FALSE
        /\ IsWholeTable(Text)
        /\ Line(Text, 4) = S_LabelID \o IntToStr(Arg(K_monitor_id).v)
        /\ \A k \in {K_name, K_type, K_overall_state} :
              IsStr(DictGet(outcome.value, k, None)) =>
                  LET n == CASE k = K_name -> 5 [] k = K_type -> 6 [] OTHER -> 7
                      label == CASE k = K_name -> S_LabelName
                                 [] k = K_type -> S_LabelType
                                 [] OTHER -> S_LabelState
                  IN Line(Text, n) = label \o DictGet(outcome.value, k, None).v

\* get_monitor, no format given, returned the table of "CPU High Alert"
C9_Witness ==
    /\ pc = "done"
    /\ tool = "get_monitor"
    /\ ~DictHas(ReqArgs, K_format)
    /\ outcome.kind = "return"
    /\ outcome.value = CpuMonitor
    /\ ~result.isError

\* the Tags line for a list of tags
TagsShown(tags) ==
    IF Len(tags) = 0 THEN T_None
    ELSE Join(<<",", " ">>, [i \in 1..Min(Len(tags), 5) |-> tags[i].v])
         \o (IF Len(tags) > 5
             THEN <<" ", "(", "+">> \o IntToStr(Len(tags) - 5)
                  \o <<" ", "m", "o", "r", "e", ")">>
             ELSE <<>>)

\* C10: in the table, for a record with n tags, the Tags line shows the first
\* min(n, 5) tags in order joined by ", ", followed by " (+<n-5> more)" exactly
\* when n > 5 (5 tags: no suffix), and shows "None" when n = 0.
C10_TagsLine ==
    (tool = "get_monitor" /\ pc = "done" /\ WantsTable /\ outcome.kind = "return"
        /\ Formattable(outcome.value)) =>
        /\ result.isError = FALSE
        /\ Line(Text, 9) = S_LabelTags \o TagsShown(DictGet(outcome.value, K_tags, PyList(<<>>)).v)
        /\ Contains(Line(Text, 9), <<"m", "o", "r", "e", ")">>)
              <=> Len(DictGet(outcome.value, K_tags, PyList(<<>>)).v) > 5

\* get_monitor returned the table of a monitor with exactly 5 tags
C10_Witness ==
    /\ pc = "done"
    /\ tool = "get_monitor"
    /\ WantsTable
    /\ outcome.kind = "return"
    /\ Formattable(outcome.value)
    /\ Len(DictGet(outcome.value, K_tags, PyList(<<>>)).v) = 5
    /\ ~result.isError

\* the Message line for a message: cut after 100 characters, newlines as spaces
MessageShown(m) ==
    LET cut == IF Len(m) > 100 THEN SubSeq(m, 1, 100) \o <<".", ".", ".">> ELSE m
    IN IF Len(m) = 0 THEN T_None
       ELSE [i \in 1..Len(cut) |-> IF cut[i] = "\n" THEN " " ELSE cut[i]]

TableReturned ==
    /\ tool = "get_monitor"
    /\ pc = "done"
    /\ WantsTable
    /\ outcome.kind = "return"
    /\ Formattable(outcome.value)

\* C11: in the table, a message longer than 100 characters is shown as its first
\* 100 characters and "...", a shorter one (and one of exactly 100) whole and
\* without "..."; each newline of what is shown becomes a space, so the Message
\* line is one line, the last of the table; an empty message is shown as "None".
C11_MessageLine ==
    TableReturned =>
        LET m == DictGet(outcome.value, K_message, PyStr(<<>>)).v
            line == Line(Text, 11)
        IN /\ result.isError = FALSE
           /\ LineCount(Text) = 11
           /\ Text[Len(Text)] = "\n"
           /\ line = S_LabelMessage \o MessageShown(m)
           /\ EndsWith(line, <<".", ".", ".">>) <=> Len(m) > 100
           /\ Len(line) = Len(S_LabelMessage)
                          + (IF Len(m) = 0 THEN 4 ELSE IF Len(m) > 100 THEN 103 ELSE Len(m))

\* get_monitor returned the table of a monitor whose message of 101 characters holds newlines
C11_Witness ==
    /\ TableReturned
    /\ Len(DictGet(outcome.value, K_message, PyStr(<<>>)).v) = 101
    /\ \E i \in 1..100 : DictGet(outcome.value, K_message, PyStr(<<>>)).v[i] = "\n"
    /\ ~result.isError

\* the attributes the table shows after the ID, the labels of their lines and what
\* the spec has a line show for an attribute the record lacks
ShownKeys == <<K_name, K_type, K_overall_state, K_priority, K_tags, K_query, K_message>>
ShownLabels ==
    <<S_LabelName, S_LabelType, S_LabelState, S_LabelPriority, S_LabelTags, S_LabelQuery,
      S_LabelMessage>>
ShownDefaults ==
    <<<<"U", "n", "n", "a", "m", "e", "d">>, <<"u", "n", "k", "n", "o", "w", "n">>,
      <<"u", "n", "k", "n", "o", "w", "n">>, <<"N", "/", "A">>, <<"N", "o", "n", "e">>,
      <<"N", "/", "A">>, <<"N", "o", "n", "e">>>>

\* C12: in the table, a fetched record that lacks the key of an attribute has that
\* attribute's line show the default (Name "Unnamed", Type "unknown", State
\* "unknown", Priority "N/A", Tags "None", Query "N/A", Message "None"), and the
\* call succeeds.
C12_AbsentKeyDefaults ==
    (TableReturned /\ \E k \in 1..7 : ~DictHas(outcome.value, ShownKeys[k])) =>
        /\ Len(result.content) = 1
        /\ result.isError = FALSE
        /\ IsWholeTable(Text)
        /\ \A k \in 1..7 :
              ~DictHas(outcome.value, ShownKeys[k]) =>
                  Line(Text, k + 4) = ShownLabels[k] \o ShownDefaults[k]

\* get_monitor returned the table of a record that holds a name and tags, and no
\* type, state, priority, query or message
C12_Witness ==
    /\ TableReturned
    /\ DictKeys(outcome.value) = {K_id, K_name, K_tags}
    /\ ~result.isError

\* which of the three validation messages a text is: the one naming the
\* monitor_id (1), the priority (2), or the missing fields (3); 0 for any other text
ValidationMessage(t) ==
    LET id == Contains(Lower(t), T_monitor_id)
        prio == Contains(Lower(t), T_priority)
        field == Contains(Lower(t), T_at_least_one_field)
    IN IF id /\ ~prio /\ ~field THEN 1
       ELSE IF prio /\ ~id /\ ~field THEN 2
       ELSE IF field /\ ~id /\ ~prio THEN 3
       ELSE 0

\* the first validation check of monitor_edit the request fails; 0 when it passes all
FirstFailingCheck ==
    IF ~MonitorIdSupplied THEN 1
    ELSE IF ~PriorityValid THEN 2
    ELSE IF SuppliedFields = {} THEN 3
    ELSE 0

\* C13: monitor_edit checks (1) the monitor_id, (2) the priority range, (3) the
\* patch, in this order, and the first check that fails alone decides the result:
\* no monitor_id with a priority out of range gives the monitor_id message; a
\* monitor_id with a priority out of range and no other field gives the priority
\* message; update_monitor is called only when the three checks have passed.
C13_ValidationOrder ==
    (tool = "monitor_edit" /\ Started) =>
        /\ FirstFailingCheck # 0 =>
              /\ pc = "done"
              /\ Failed
              /\ ValidationMessage(Text) = FirstFailingCheck
              /\ NoNetwork
        /\ FirstFailingCheck = 0 => Len(calls) = 1 /\ calls[1].op = "update_monitor"

\* monitor_edit was called without monitor_id and with priority 6, and returned
C13_Witness ==
    /\ pc = "done"
    /\ tool = "monitor_edit"
    /\ ~DictHas(ReqArgs, K_monitor_id)
    /\ Arg(K_priority) = PyInt(6)
    /\ ValidationMessage(Text) = 1

\* the exception the Remote Client raises for a reply that is not a success
ErrorOfReply(reply, e) ==
    IF reply.status >= 400
    THEN e.cls = "HTTPStatusError" /\ e.status_code = reply.status
    ELSE e.cls # "HTTPStatusError"

\* C14: update_monitor sends its PUT only after its GET for the same id was
\* answered with success; when the GET fails with an HTTP status error no PUT is
\* sent, the monitors of the service stay as they were, and that error reaches
\* the caller; when the PUT fails, its error reaches the caller.
C14_ReadThenWrite ==
    (tool = "monitor_edit" /\ calls # <<>>) =>
        /\ Len(http) >= 1 /\ http[1].method = "GET" /\ http[1].id = calls[1].monitor_id
        /\ \A i \in 1..Len(http) :
              http[i].method = "PUT" =>
                  /\ i = 2
                  /\ http[i].id = http[1].id
                  /\ Len(replies) >= 1
                  /\ replies[1].status = 200
        /\ (Len(replies) >= 1 /\ replies[1].status # 200) =>
              /\ Len(http) = 1
              /\ remote = before
              /\ pc = "done"
              /\ outcome.kind = "raise"
              /\ ErrorOfReply(replies[1], outcome.exc)
        /\ (Len(replies) = 2 /\ replies[2].status # 200) =>
              /\ pc = "done"
              /\ outcome.kind = "raise"
              /\ ErrorOfReply(replies[2], outcome.exc)

\* update_monitor's GET for monitor 99999999 was answered 404, and monitor_edit returned
C14_Witness ==
    /\ pc = "done"
    /\ tool = "monitor_edit"
    /\ Len(http) = 1
    /\ http[1].id = PyInt(99999999)
    /\ Len(replies) = 1
    /\ replies[1].status = 404
    /\ outcome.kind = "raise"
    /\ outcome.exc.status_code = 404

\* the request fails a validation check of the handler invoked
FailsValidation ==
    IF tool = "get_monitor" THEN ~MonitorIdSupplied ELSE ~PassesValidation

\* C15: an invocation sends a bounded number of HTTP requests and never one
\* again: get_monitor at most one GET, monitor_edit at most a GET and then a PUT,
\* none when validation fails, and none after a request that failed.
C15_BoundedRequests ==
    Started =>
        /\ Len(calls) <= 1
        /\ Len(replies) <= Len(http)
        /\ pc = "done" => Len(replies) = Len(http)
        /\ tool = "get_monitor" =>
              Len(http) <= 1 /\ \A i \in 1..Len(http) : http[i].method = "GET"
        /\ tool = "monitor_edit" =>
              /\ Len(http) <= 2
              /\ Len(http) >= 1 => http[1].method = "GET"
              /\ Len(http) = 2 => http[2].method = "PUT"
        /\ FailsValidation => http = <<>> /\ calls = <<>>
        /\ \A i \in 1..Len(replies) :
              replies[i].status # 200 => Len(http) = i /\ pc = "done"

\* monitor_edit's GET was answered 500, and it returned without a second request
C15_Witness ==
    /\ pc = "done"
    /\ tool = "monitor_edit"
    /\ Len(http) = 1
    /\ Len(replies) = 1
    /\ replies[1].status = 500
    /\ result.isError

\* the write of update_monitor is accepted: the body becomes the monitor's record
\* and monitor_edit confirms the update
AcceptedWrite ==
    /\ UpdateMonitorPutReply
    /\ remote'[http[2].id.v] = http[2].body
    /\ result'.isError = FALSE

\* a modification by another client, made between the read and the write of the
\* update, of an attribute the patch does not name
ModifiedBetween(e) ==
    /\ e.pc = "update_monitor_put"
    /\ PyInt(e.id) = Arg(K_monitor_id)
    /\ e.key \notin SuppliedFields

\* C16: update_monitor checks no version between its read and its write: the
\* body written is the record read overlaid with the patch, the write of a monitor
\* that exists can always be accepted whatever other clients did to the monitor
\* since the read, and an accepted write leaves the body as the monitor's record;
\* so a modification made in between is lost while monitor_edit reports success.
C16_NoVersionCheck ==
    (tool = "monitor_edit" /\ Len(http) = 2) =>
        /\ http[2].body = Overlay(replies[1].body, calls[1].kwargs)
        /\ (pc = "update_monitor_put" /\ Exists(remote, http[2].id)) => ENABLED AcceptedWrite
        /\ (/\ pc = "done"
            /\ ~result.isError
            /\ \A i \in 1..Len(external) : external[i].pc # "done") =>
              /\ remote[http[2].id.v] = http[2].body
              /\ \A i \in 1..Len(external) :
                    ModifiedBetween(external[i]) =>
                        DictGet(remote[external[i].id], external[i].key, None)
                            = DictGet(before[external[i].id], external[i].key, None)

\* another client set the message of monitor 12345 after update_monitor read it;
\* the write renamed the monitor and put the old message back, and monitor_edit
\* reported success
C16_Witness ==
    /\ pc = "done"
    /\ tool = "monitor_edit"
    /\ result.isError = FALSE
    /\ Text = SuccessText
    /\ Arg(K_monitor_id) = PyInt(12345)
    /\ SuppliedFields = {K_name}
    /\ Len(external) = 1
    /\ ModifiedBetween(external[1])
    /\ external[1].key = K_message
    /\ DictGet(remote[12345], K_message, None) # external[1].value
    /\ DictGet(remote[12345], K_message, None) = DictGet(before[12345], K_message, None)
    /\ DictGet(remote[12345], K_name, None) = PyStr(V_NewName)

\* C18: over any sequence of get_monitor and monitor_edit calls, no step of this
\* system adds a monitor to the service or removes one; get_monitor sends no
\* write request and changes no record; monitor_edit changes no record but the
\* one whose id is its monitor_id.
C18_Frame ==
    /\ [](tool = "get_monitor" => \A i \in 1..Len(http) : http[i].method = "GET")
    /\ [][Len(external') <= Len(external) =>
            /\ DOMAIN remote' = DOMAIN remote
            /\ (tool = "get_monitor" \/ tool' = "get_monitor") => remote' = remote
            /\ \A id \in DOMAIN remote :
                  remote'[id] # remote[id] =>
                      tool = "monitor_edit" /\ Arg(K_monitor_id) = PyInt(id)]_vars

\* the second call of a run, a monitor_edit of monitor 12345, changed that record
\* and left monitor 99999 as it was
C18_Witness ==
    /\ ncalls = 2
    /\ pc = "done"
    /\ tool = "monitor_edit"
    /\ result.isError = FALSE
    /\ external = <<>>
    /\ remote[12345] # before[12345]
    /\ remote[99999] = before[99999]
    /\ DOMAIN remote = {12345, 99999}

\* the attributes of a monitor record
MonitorKeys ==
    {K_id, K_name, K_type, K_overall_state, K_priority, K_query, K_message, K_tags}

PriorityShown(p) == IF IsNone(p) THEN <<"N", "/", "A">> ELSE IntToStr(p.v)

\* C19: in the table the Priority line shows "N/A" whenever the fetched monitor
\* has no priority, be the key absent or its value null, and the integer when a
\* priority is set.
C19_PriorityLine ==
    TableReturned =>
        /\ result.isError = FALSE
        /\ Line(Text, 8) = S_LabelPriority
                           \o PriorityShown(DictGet(outcome.value, K_priority, None))

\* get_monitor returned the table of a record whose priority is null
C19_NullPriorityShown ==
    /\ TableReturned
    /\ DictHas(outcome.value, K_priority)
    /\ IsNone(DictGet(outcome.value, K_priority, PyInt(0)))
    /\ result.isError = FALSE
    /\ Line(Text, 8) = S_LabelPriority \o T_None

\* "monitor_id is required"
T_monitor_id_is_required == <<"m", "o", "n", "i", "t", "o", "r", "_", "i", "d", " ", "i",
    "s", " ", "r", "e", "q", "u", "i", "r", "e", "d">>

\* the text the spec fixes for the first validation check the request fails
SpecValidationText ==
    CASE FirstFailingCheck = 1 -> T_monitor_id_is_required
      [] FirstFailingCheck = 2 -> T_InvalidPriority
      [] OTHER -> T_AtLeastOneField

\* the text the handlers are to give for the first validation check the request fails
ValidationText ==
    CASE FirstFailingCheck = 1 -> T_MonitorIdRequired
      [] FirstFailingCheck = 2 -> T_InvalidPriority
      [] OTHER -> T_AtLeastOneField

\* the first check the request fails, get_monitor having the first check only
FailsCheck ==
    IF tool = "get_monitor" THEN ~MonitorIdSupplied ELSE FirstFailingCheck # 0

\* C20 as stated: the text of a validation failure is exactly "monitor_id is
\* required" for a monitor_id absent or null, in both handlers, "Invalid
\* priority: must be 1-5" for a priority out of range, and "At least one field to
\* update is required" for an empty patch.
C20_TextsAsStated ==
    (Started /\ FailsCheck) => pc = "done" /\ Failed /\ Text = SpecValidationText

\* C20: the text of a validation failure is exactly "Error: monitor_id is
\* required" for a monitor_id absent or null, in both handlers, "Invalid
\* priority: must be 1-5" for a priority out of range, and "At least one field to
\* update is required" for an empty patch.
C20_ValidationTexts ==
    (Started /\ FailsCheck) => pc = "done" /\ Failed /\ Text = ValidationText

\* get_monitor returned for a request with a null monitor_id
C20_Witness ==
    /\ pc = "done"
    /\ DictHas(ReqArgs, K_monitor_id)
    /\ ~MonitorIdSupplied
    /\ Failed
    /\ Text = T_MonitorIdRequired
    /\ tool = "get_monitor"

\* two recorded invocations were given the same: the tool, the request's
\* arguments and the replies of the service
SameGiven(a, b) ==
    /\ a.tool = b.tool
    /\ a.request = b.request
    /\ a.replies = b.replies

====
